---- MODULE Spec2Model ----
(***************************************************************************)
(* Model of src/mail.rs: the mail dispatch functions, get_text,             *)
(* get_template, send_email and mailer.                                    *)
(*                                                                         *)
(* A string is a sequence of one-character strings.  Option<T> is a        *)
(* sequence of length at most one: None == << >>, Some(x) == <<x>>.        *)
(* Result<T, E> is a record [ok, v].                                       *)
(***************************************************************************)
EXTENDS Integers, Sequences, FiniteSets, TLC

VARIABLES
    CONFIG,         \* the read-only configuration (crate::CONFIG)
    pc,             \* position of the dispatch call
    call,           \* the dispatcher function that was called
    template_name,  \* its template
    address,        \* its address argument
    html_text,      \* Option: what render_template returned for "<name>.html"
    plain_text,     \* Option: what render_template returned for "<name>"
    subject,        \* get_text's results
    body_html,
    body_text,
    address_split,  \* send_email: address.rsplitn(2, '@').collect()
    idna_input,     \* Option: the argument idna::domain_to_ascii_strict received
    to_address,     \* Option: the address after format!("{}@{}", ..)
    assembled,      \* Option: whether MessageBuilder::multipart returned Ok
    email,          \* Option: the Message that was built
    transport,      \* Option: the SmtpTransport mailer() returned
    warnings,       \* number of warn!() lines logged
    mailers,        \* number of calls of mailer()
    sent,           \* the outcomes of the calls of Transport::send, in order
    result          \* Option: the EmptyResult returned to the caller

vars == <<CONFIG, pc, call, template_name, address, html_text, plain_text,
          subject, body_html, body_text, address_split, idna_input, to_address,
          assembled, email, transport, warnings, mailers, sent, result>>

(***************************************************************************)
(* Bounds of the exhaustive input sets.                                    *)
(***************************************************************************)
MaxAddrLen == 3
MaxTextLen == 3
MaxMechLen == 3

None == << >>
Some(x) == <<x>>
Ok(x) == [ok |-> TRUE, v |-> x]
Err(e) == [ok |-> FALSE, v |-> e]

Range(s) == {s[i] : i \in 1..Len(s)}
StringsUpTo(A, n) == UNION {[1..k -> A] : k \in 0..n}

(***************************************************************************)
(* str::split(sep): the segments between the occurrences of sep, in order. *)
(* n occurrences give n + 1 segments, empty ones included.                 *)
(***************************************************************************)
RECURSIVE split(_, _)
split(s, sep) ==
    IF \E i \in 1..Len(s) : s[i] = sep
    THEN LET i == CHOOSE i \in 1..Len(s) : s[i] = sep /\ \A j \in 1..(i - 1) : s[j] # sep
         IN  <<SubSeq(s, 1, i - 1)>> \o split(SubSeq(s, i + 1, Len(s)), sep)
    ELSE <<s>>

(***************************************************************************)
(* str::rsplitn(n, sep): at most n segments, taken from the right; the     *)
(* last one yielded is the unsplit rest of the string.                     *)
(***************************************************************************)
RECURSIVE rsplitn(_, _, _)
rsplitn(s, n, sep) ==
    IF n = 0 THEN << >>
    ELSE IF n = 1 \/ ~ \E i \in 1..Len(s) : s[i] = sep THEN <<s>>
    ELSE LET i == CHOOSE i \in 1..Len(s) : s[i] = sep /\ \A j \in (i + 1)..Len(s) : s[j] # sep
         IN  <<SubSeq(s, i + 1, Len(s))>> \o rsplitn(SubSeq(s, 1, i - 1), n - 1, sep)

(***************************************************************************)
(* str::trim_matches(pat): the characters of pat removed from both ends.   *)
(***************************************************************************)
RECURSIVE trim_start_matches(_, _)
trim_start_matches(s, pat) ==
    IF s # << >> /\ Head(s) \in pat THEN trim_start_matches(Tail(s), pat) ELSE s

RECURSIVE trim_end_matches(_, _)
trim_end_matches(s, pat) ==
    IF s # << >> /\ s[Len(s)] \in pat
    THEN trim_end_matches(SubSeq(s, 1, Len(s) - 1), pat) ELSE s

trim_matches(s, pat) == trim_end_matches(trim_start_matches(s, pat), pat)

(***************************************************************************)
(* Rendered template text.  The text is a sequence of items: the delimiter *)
(* marker (one item, as the marker cannot overlap itself), white space,    *)
(* and any other character.                                                *)
(***************************************************************************)
DELIMITER == "<!---------------->"
White_Space == {" ", "\n"}
TextItems == {DELIMITER, " ", "x"}

\* str::trim()
trim(s) == trim_matches(s, White_Space)

\* Iterator::next() on the iterator str::split returns: (item, rest)
next(it) == IF it = << >> THEN None ELSE Some(Head(it))
advance(it) == IF it = << >> THEN it ELSE Tail(it)

(***************************************************************************)
(* get_template, given what CONFIG.render_template returned                *)
(* (a Result<String, Error>): Result<(subject, body), Error>.              *)
(***************************************************************************)
get_template(rendered) ==
    IF ~ rendered.ok THEN Err("render_template")
    ELSE LET text_split == split(rendered.v, DELIMITER)
             first == next(text_split)
             second == next(advance(text_split))
         IN  IF first = None THEN Err("Template doesn't contain subject")
             ELSE IF second = None THEN Err("Template doesn't contain body")
             ELSE Ok(<<trim(first[1]), trim(second[1])>>)

(***************************************************************************)
(* Addresses.  The characters an address is drawn from: an ASCII lower     *)
(* case letter, an ASCII upper case letter, a non-ASCII letter (U+00E9),   *)
(* the label separator, a character STD3 disallows, and '@'.               *)
(***************************************************************************)
E_ACUTE == "U+00E9"
AddressChars == {"a", "B", E_ACUTE, ".", " ", "@"}

\* The digits of punycode, in the order of their values 0..35.
PUNYCODE_DIGITS ==
    <<"a", "b", "c", "d", "e", "f", "g", "h", "i", "j", "k", "l", "m",
      "n", "o", "p", "q", "r", "s", "t", "u", "v", "w", "x", "y", "z",
      "0", "1", "2", "3", "4", "5", "6", "7", "8", "9">>
PUNYCODE_PREFIX == <<"x", "n", "-", "-">>

code_point(c) ==
    CASE c = E_ACUTE -> 233
      [] c = " " -> 32
      [] c = "-" -> 45
      [] c = "." -> 46
      [] c = "@" -> 64
      [] c = "B" -> 66
      [] \E d \in 1..26 : PUNYCODE_DIGITS[d] = c ->
            96 + (CHOOSE d \in 1..26 : PUNYCODE_DIGITS[d] = c)
      [] \E d \in 27..36 : PUNYCODE_DIGITS[d] = c ->
            21 + (CHOOSE d \in 27..36 : PUNYCODE_DIGITS[d] = c)

is_ascii(s) == \A i \in 1..Len(s) : code_point(s[i]) < 128

(***************************************************************************)
(* Punycode (RFC 3492), as idna::punycode::encode computes it.             *)
(***************************************************************************)
BASE == 36
T_MIN == 1
T_MAX == 26
SKEW == 38
DAMP == 700
INITIAL_BIAS == 72
INITIAL_N == 128

RECURSIVE adapt_loop(_, _)
adapt_loop(delta, k) ==
    IF delta > ((BASE - T_MIN) * T_MAX) \div 2
    THEN adapt_loop(delta \div (BASE - T_MIN), k + BASE)
    ELSE k + (((BASE - T_MIN + 1) * delta) \div (delta + SKEW))

adapt(delta, num_points, first_time) ==
    LET d == IF first_time THEN delta \div DAMP ELSE delta \div 2
    IN  adapt_loop(d + (d \div num_points), 0)

value_to_digit(d) == PUNYCODE_DIGITS[d + 1]

RECURSIVE encode_delta(_, _, _)
encode_delta(q, k, bias) ==
    LET t == IF k <= bias THEN T_MIN
             ELSE IF k >= bias + T_MAX THEN T_MAX ELSE k - bias
    IN  IF q < t THEN <<value_to_digit(q)>>
        ELSE <<value_to_digit(t + ((q - t) % (BASE - t)))>>
             \o encode_delta((q - t) \div (BASE - t), k + BASE, bias)

\* One pass over the input for the code point n; st = [delta, bias, h, out].
RECURSIVE punycode_pass(_, _, _, _, _)
punycode_pass(input, j, n, b, st) ==
    IF j > Len(input) THEN st
    ELSE LET c == code_point(input[j])
         IN  IF c < n
             THEN punycode_pass(input, j + 1, n, b, [st EXCEPT !.delta = @ + 1])
             ELSE IF c = n
             THEN punycode_pass(input, j + 1, n, b,
                      [delta |-> 0,
                       bias  |-> adapt(st.delta, st.h + 1, st.h = b),
                       h     |-> st.h + 1,
                       out   |-> st.out \o encode_delta(st.delta, BASE, st.bias)])
             ELSE punycode_pass(input, j + 1, n, b, st)

RECURSIVE punycode_loop(_, _, _, _)
punycode_loop(input, n, b, st) ==
    IF st.h >= Len(input) THEN st.out
    ELSE LET rest == {code_point(input[i]) : i \in 1..Len(input)} \ (0..(n - 1))
             m == CHOOSE x \in rest : \A y \in rest : x <= y
             st1 == [st EXCEPT !.delta = @ + (m - n) * (st.h + 1)]
             st2 == punycode_pass(input, 1, m, b, st1)
         IN  punycode_loop(input, m + 1, b, [st2 EXCEPT !.delta = @ + 1])

punycode_encode(input) ==
    LET basic == SelectSeq(input, LAMBDA c : code_point(c) < INITIAL_N)
        b == Len(basic)
    IN  punycode_loop(input, INITIAL_N, b,
            [delta |-> 0, bias |-> INITIAL_BIAS, h |-> b,
             out |-> IF b > 0 THEN basic \o <<"-">> ELSE basic])

(***************************************************************************)
(* idna::domain_to_ascii_strict: UTS 46 processing with the STD3 ASCII     *)
(* rules, each label with a non-ASCII character punycode-encoded, and the  *)
(* DNS length checked.  Result<String, Errors>.                            *)
(***************************************************************************)
\* UTS 46 mapping: upper case ASCII letters are mapped to lower case.
uts46_map(c) == IF c = "B" THEN "b" ELSE c
\* Under use_std3_ascii_rules the ASCII characters other than letters,
\* digits and the hyphen are disallowed ('.' separates the labels).
disallowed_std3(c) == c \in {" ", "@"}

RECURSIVE join(_, _)
join(parts, sep) ==
    IF parts = << >> THEN << >>
    ELSE IF Len(parts) = 1 THEN parts[1]
    ELSE parts[1] \o <<sep>> \o join(Tail(parts), sep)

label_to_ascii(label) ==
    IF is_ascii(label) THEN label ELSE PUNYCODE_PREFIX \o punycode_encode(label)

to_ascii(domain) ==
    LET mapped == [i \in 1..Len(domain) |-> uts46_map(domain[i])]
        labels == split(mapped, ".")
    IN  join([i \in 1..Len(labels) |-> label_to_ascii(labels[i])], ".")

verify_dns_length(ascii) ==
    LET domain == IF ascii # << >> /\ ascii[Len(ascii)] = "."
                  THEN SubSeq(ascii, 1, Len(ascii) - 1) ELSE ascii
        labels == split(domain, ".")
    IN  /\ Len(domain) >= 1
        /\ \A i \in 1..Len(labels) : Len(labels[i]) >= 1
        /\ Len(domain) <= 253
        /\ \A i \in 1..Len(labels) : Len(labels[i]) <= 63

domain_to_ascii_strict(domain) ==
    IF \E i \in 1..Len(domain) : disallowed_std3(domain[i]) THEN Err("Errors")
    ELSE IF ~ verify_dns_length(to_ascii(domain)) THEN Err("Errors")
    ELSE Ok(to_ascii(domain))

(***************************************************************************)
(* lettre::Address::from_str: the string is split at its last '@', the     *)
(* user part is dot-separated atoms, the domain dot-separated host labels. *)
(***************************************************************************)
ASCII_ALNUM == Range(PUNYCODE_DIGITS) \cup {"B"}

check_user(user) ==
    LET atoms == split(user, ".")
    IN  \A i \in 1..Len(atoms) :
            atoms[i] # << >> /\ Range(atoms[i]) \subseteq ASCII_ALNUM

check_domain(domain) ==
    LET labels == split(domain, ".")
    IN  \A i \in 1..Len(labels) :
            /\ labels[i] # << >>
            /\ Range(labels[i]) \subseteq ASCII_ALNUM \cup {"-"}
            /\ Head(labels[i]) # "-"
            /\ labels[i][Len(labels[i])] # "-"

Address_from_str(val) ==
    LET parts == rsplitn(val, 2, "@")
    IN  IF Len(parts) # 2 THEN Err("AddressError")
        ELSE IF ~ (check_user(parts[2]) /\ check_domain(parts[1])) THEN Err("AddressError")
        ELSE Ok(val)

(***************************************************************************)
(* mailer().  The configured auth-mechanism preference is a sequence of    *)
(* items: the comma, the two quote characters, the space, a tab, and words *)
(* (each word one item).                                                   *)
(***************************************************************************)
MechanismItems == {",", "\"", "'", " ", "\t", "PLAIN", "login", "Xoauth2", "bogus"}

\* str::to_lowercase()
lowercase(c) ==
    CASE c \in {"PLAIN", "Plain"} -> "plain"
      [] c \in {"LOGIN", "Login"} -> "login"
      [] c \in {"XOAUTH2", "Xoauth2"} -> "xoauth2"
      [] OTHER -> c
to_lowercase(s) == [i \in 1..Len(s) |-> lowercase(s[i])]

\* vec![SmtpAuthMechanism::Plain, SmtpAuthMechanism::Login, SmtpAuthMechanism::Xoauth2]
allowed_mechanisms == <<"Plain", "Login", "Xoauth2">>

\* Display for lettre's Mechanism
to_string(m) ==
    CASE m = "Plain" -> <<"PLAIN">>
      [] m = "Login" -> <<"LOGIN">>
      [] m = "Xoauth2" -> <<"XOAUTH2">>

\* The closure of wanted_mechanism.trim_matches(..)
TrimChars == {"\"", "'", " "}

\* A plausible slip: the wanted mechanism compared without to_lowercase().
mechanism_matches_case_sensitive(m, wanted_mechanism) ==
    to_lowercase(to_string(m)) = trim_matches(wanted_mechanism, TrimChars)

\* The condition of the if of the inner loop
mechanism_matches(m, wanted_mechanism) ==
    to_lowercase(to_string(m)) = to_lowercase(trim_matches(wanted_mechanism, TrimChars))

\* The inner loop: for m in &allowed_mechanisms { if .. { push(m) } }
pushed_for(wanted_mechanism) ==
    SelectSeq(allowed_mechanisms, LAMBDA m : mechanism_matches(m, wanted_mechanism))

\* The outer loop: for wanted_mechanism in mechanism.split(',')
RECURSIVE for_wanted(_)
for_wanted(wanted) ==
    IF wanted = << >> THEN << >>
    ELSE pushed_for(Head(wanted)) \o for_wanted(Tail(wanted))

\* A plausible slip: the two loops nested the other way round.
RECURSIVE for_allowed_outer(_, _)
for_allowed_outer(allowed, wanted) ==
    IF allowed = << >> THEN << >>
    ELSE LET matched == SelectSeq(wanted, LAMBDA w : mechanism_matches(Head(allowed), w))
         IN  [i \in 1..Len(matched) |-> Head(allowed)]
             \o for_allowed_outer(Tail(allowed), wanted)
selected_mechanisms_swapped(mechanism) ==
    for_allowed_outer(allowed_mechanisms, split(mechanism, ","))

selected_mechanisms(mechanism) == for_wanted(split(mechanism, ","))

\* A plausible slip: Wrapper and Required exchanged.
client_security_swapped(cfg) ==
    IF cfg.smtp_ssl
    THEN LET tls == [min_protocol_version |-> "Tlsv11"]
             params == [domain |-> cfg.smtp_host[1], connector |-> tls]
         IN  IF cfg.smtp_explicit_tls
             THEN [mode |-> "Required", params |-> Some(params)]
             ELSE [mode |-> "Wrapper", params |-> Some(params)]
    ELSE [mode |-> "None", params |-> None]

\* let client_security = if CONFIG.smtp_ssl() { .. } else { Tls::None };
client_security(cfg) ==
    IF cfg.smtp_ssl
    THEN LET tls == [min_protocol_version |-> "Tlsv11"]
             params == [domain |-> cfg.smtp_host[1], connector |-> tls]
         IN  IF cfg.smtp_explicit_tls
             THEN [mode |-> "Wrapper", params |-> Some(params)]
             ELSE [mode |-> "Required", params |-> Some(params)]
    ELSE [mode |-> "None", params |-> None]

\* match (CONFIG.smtp_username(), CONFIG.smtp_password())
credentials(cfg) ==
    IF cfg.smtp_username # None /\ cfg.smtp_password # None
    THEN Some([user |-> cfg.smtp_username[1], pass |-> cfg.smtp_password[1]])
    ELSE None

\* match CONFIG.smtp_auth_mechanism(): None stands for the builder's default
authentication(cfg) ==
    IF cfg.smtp_auth_mechanism = None THEN None
    ELSE IF selected_mechanisms(cfg.smtp_auth_mechanism[1]) # << >>
    THEN Some(selected_mechanisms(cfg.smtp_auth_mechanism[1]))
    ELSE None

\* Whether warn!("No valid SMTP Auth mechanism found ..") is reached
mailer_warns(cfg) ==
    /\ cfg.smtp_auth_mechanism # None
    /\ selected_mechanisms(cfg.smtp_auth_mechanism[1]) = << >>

\* The SmtpTransport mailer() builds when neither unwrap() panics
mailer(cfg) ==
    [host           |-> cfg.smtp_host[1],
     port           |-> cfg.smtp_port,
     tls            |-> client_security(cfg),
     credentials    |-> credentials(cfg),
     hello_name     |-> cfg.helo_name,
     authentication |-> authentication(cfg),
     timeout        |-> Some(cfg.smtp_timeout)]

(***************************************************************************)
(* send_email, lines 304-314: the address is split and its domain encoded. *)
(***************************************************************************)
\* A plausible slip: splitn in place of rsplitn (the split at the first '@').
send_email_address_split_first(addr) ==
    IF ~ \E i \in 1..Len(addr) : addr[i] = "@" THEN <<addr>>
    ELSE LET i == CHOOSE i \in 1..Len(addr) :
                      addr[i] = "@" /\ \A j \in 1..(i - 1) : addr[j] # "@"
         IN  <<SubSeq(addr, i + 1, Len(addr)), SubSeq(addr, 1, i - 1)>>

\* let address_split: Vec<&str> = address.rsplitn(2, '@').collect();
\* (address_split[0] of the code is address_split[1] here: sequences start at 1)
send_email_address_split(addr) == rsplitn(addr, 2, "@")

\* A plausible slip: idna::domain_to_ascii, which neither applies the STD3
\* rules nor verifies the DNS length.
domain_to_ascii(domain) == Ok(to_ascii(domain))

\* match idna::domain_to_ascii_strict(address_split[0])
domain_puny(domain) == domain_to_ascii_strict(domain)

(***************************************************************************)
(* send_email, lines 316-343: the message.  Result<Message, Error>.        *)
(***************************************************************************)
mime_tree(html, text) ==
    [content_type |-> "multipart/mixed",
     parts |-> <<[content_type |-> "multipart/alternative",
                  parts |-> <<[content_type |-> "text/plain; charset=utf-8",
                               encoding |-> "quoted-printable",
                               body |-> text],
                              [content_type |-> "multipart/related",
                               parts |-> <<[content_type |-> "text/html; charset=utf-8",
                                            encoding |-> "quoted-printable",
                                            body |-> html]>>]>>]>>]

\* A plausible slip: the from-address parsed without the `?`.
message_unchecked_from(cfg, to, subj, html, text, multipart_ok) ==
    IF ~ Address_from_str(to).ok THEN Err("AddressError")
    ELSE IF ~ multipart_ok THEN Err("lettre::error::Error")
    ELSE Ok([to      |-> [name |-> None, email |-> to],
             from    |-> [name |-> Some(cfg.smtp_from_name), email |-> cfg.smtp_from],
             subject |-> subj,
             body    |-> mime_tree(html, text)])

message(cfg, to, subj, html, text, multipart_ok) ==
    IF ~ Address_from_str(to).ok THEN Err("AddressError")
    ELSE IF ~ Address_from_str(cfg.smtp_from).ok THEN Err("AddressError")
    ELSE IF ~ multipart_ok THEN Err("lettre::error::Error")
    ELSE Ok([to      |-> [name |-> None, email |-> to],
             from    |-> [name |-> Some(cfg.smtp_from_name), email |-> cfg.smtp_from],
             subject |-> subj,
             body    |-> mime_tree(html, text)])

(***************************************************************************)
(* The dispatcher functions and their templates.                           *)
(***************************************************************************)
Dispatchers ==
    {"send_password_hint", "send_delete_account", "send_verify_email",
     "send_welcome", "send_welcome_must_verify", "send_invite",
     "send_invite_accepted", "send_invite_confirmed",
     "send_new_device_logged_in", "send_token", "send_change_email",
     "send_test"}

\* hint_is_some matters to send_password_hint alone
template_of(f, hint_is_some) ==
    CASE f = "send_password_hint" ->
            IF hint_is_some THEN "email/pw_hint_some" ELSE "email/pw_hint_none"
      [] f = "send_delete_account" -> "email/delete_account"
      [] f = "send_verify_email" -> "email/verify_email"
      [] f = "send_welcome" -> "email/welcome"
      [] f = "send_welcome_must_verify" -> "email/welcome_must_verify"
      [] f = "send_invite" -> "email/send_org_invite"
      [] f = "send_invite_accepted" -> "email/invite_accepted"
      [] f = "send_invite_confirmed" -> "email/invite_confirmed"
      [] f = "send_new_device_logged_in" -> "email/new_device_logged_in"
      [] f = "send_token" -> "email/twofactor_email"
      [] f = "send_change_email" -> "email/change_email"
      [] f = "send_test" -> "email/smtp_test"

(***************************************************************************)
(* The inputs.                                                             *)
(***************************************************************************)
AllAddresses == StringsUpTo(AddressChars, MaxAddrLen)
SampleAddresses ==
    {<<"a">>, <<"a", "@">>, <<"@", "a">>, <<"a", "@", " ">>,
     <<"a", "@", "a">>, <<"a", "@", E_ACUTE>>}

\* What CONFIG.render_template can return
AllRenders == {Err("render")} \cup {Ok(t) : t \in StringsUpTo(TextItems, MaxTextLen)}
SampleRenders ==
    {Err("render"), Ok(<<"x">>), Ok(<<DELIMITER>>), Ok(<<"x", DELIMITER, "x">>)}

AllMechanisms == {None} \cup {Some(m) : m \in StringsUpTo(MechanismItems, MaxMechLen)}
SampleMechanisms ==
    {None, Some(<<"PLAIN", ",", " ", "bogus">>), Some(<<"bogus">>)}

Configs(hosts, mechanisms, names, froms) ==
    [smtp_host           : hosts,
     smtp_port           : {587},
     smtp_ssl            : BOOLEAN,
     smtp_explicit_tls   : BOOLEAN,
     smtp_username       : names,
     smtp_password       : names,
     helo_name           : names,
     smtp_auth_mechanism : mechanisms,
     smtp_timeout        : {15},
     smtp_from           : froms,
     smtp_from_name      : {"Vault"}]

SampleConfigs ==
    Configs({None, Some("smtp")}, SampleMechanisms, {None, Some("n")},
            {<<"a", "@", "a">>, <<"a">>})
MailerConfigs == Configs({Some("smtp")}, AllMechanisms, {None}, {<<"a", "@", "a">>})
PlainConfig ==
    CHOOSE c \in Configs({Some("smtp")}, {None}, {None}, {<<"a", "@", "a">>}) :
        c.smtp_ssl /\ ~ c.smtp_explicit_tls

(***************************************************************************)
(* The actions: one dispatch call, step by step.                           *)
(***************************************************************************)
Returns(r) == result' = Some(r) /\ pc' = "done"

\* pub fn send_..(address, ..): up to the call of get_text
Dispatch(addresses) ==
    /\ pc = "idle"
    /\ \E f \in Dispatchers, a \in addresses, hint_is_some \in BOOLEAN :
          /\ call' = f
          /\ template_name' = template_of(f, hint_is_some)
          /\ address' = a
    /\ pc' = "get_template_html"
    /\ UNCHANGED <<CONFIG, html_text, plain_text, subject, body_html, body_text,
                   address_split, idna_input, to_address, assembled, email,
                   transport, warnings, mailers, sent, result>>

\* get_text: get_template(&format!("{}.html", template_name), &data)?
GetTemplateHtml(renders) ==
    /\ pc = "get_template_html"
    /\ \E rendered \in renders :
          /\ html_text' = Some(rendered)
          /\ IF get_template(rendered).ok
             THEN /\ subject' = get_template(rendered).v[1]
                  /\ body_html' = get_template(rendered).v[2]
                  /\ pc' = "get_template_text"
                  /\ UNCHANGED result
             ELSE /\ Returns(Err(get_template(rendered).v))
                  /\ UNCHANGED <<subject, body_html>>
    /\ UNCHANGED <<CONFIG, call, template_name, address, plain_text, body_text,
                   address_split, idna_input, to_address, assembled, email,
                   transport, warnings, mailers, sent>>

\* get_text: get_template(template_name, &data)?, and the call of send_email
GetTemplateText(renders) ==
    /\ pc = "get_template_text"
    /\ \E rendered \in renders :
          /\ plain_text' = Some(rendered)
          /\ IF get_template(rendered).ok
             THEN /\ body_text' = get_template(rendered).v[2]
                  /\ pc' = "send_email"
                  /\ UNCHANGED result
             ELSE /\ Returns(Err(get_template(rendered).v))
                  /\ UNCHANGED body_text
    /\ UNCHANGED <<CONFIG, call, template_name, address, html_text, subject,
                   body_html, address_split, idna_input, to_address, assembled,
                   email, transport, warnings, mailers, sent>>

\* send_email, lines 304-314
SendEmailAddress ==
    /\ pc = "send_email"
    /\ address_split' = send_email_address_split(address)
    /\ IF Len(address_split') # 2
       THEN /\ Returns(Err("Invalid email address (no @)"))
            /\ UNCHANGED <<idna_input, to_address>>
       ELSE /\ idna_input' = Some(address_split'[1])
            /\ IF domain_puny(address_split'[1]).ok
               THEN /\ to_address' = Some(address_split'[2] \o <<"@">>
                                          \o domain_puny(address_split'[1]).v)
                    /\ pc' = "message"
                    /\ UNCHANGED result
               ELSE /\ Returns(Err("Can't convert email domain to ASCII representation"))
                    /\ UNCHANGED to_address
    /\ UNCHANGED <<CONFIG, call, template_name, address, html_text, plain_text,
                   subject, body_html, body_text, assembled, email, transport,
                   warnings, mailers, sent>>

\* send_email, lines 316-343
SendEmailMessage ==
    /\ pc = "message"
    /\ \E multipart_ok \in BOOLEAN :
          LET m == message(CONFIG, to_address[1], subject, body_html, body_text,
                           multipart_ok)
          IN  /\ assembled' = Some(multipart_ok)
              /\ IF m.ok
                 THEN email' = Some(m.v) /\ pc' = "mailer" /\ UNCHANGED result
                 ELSE Returns(Err(m.v)) /\ UNCHANGED email
    /\ UNCHANGED <<CONFIG, call, template_name, address, html_text, plain_text,
                   subject, body_html, body_text, address_split, idna_input,
                   to_address, transport, warnings, mailers, sent>>

\* send_email, line 345: mailer().  Each unwrap() panics on None / Err.
Mailer ==
    /\ pc = "mailer"
    /\ mailers' = mailers + 1
    /\ \E tls_connector_ok \in BOOLEAN :
          IF CONFIG.smtp_host = None \/ (CONFIG.smtp_ssl /\ ~ tls_connector_ok)
          THEN pc' = "panicked" /\ UNCHANGED <<transport, warnings>>
          ELSE /\ transport' = Some(mailer(CONFIG))
               /\ warnings' = IF mailer_warns(CONFIG) THEN warnings + 1 ELSE warnings
               /\ pc' = "send"
    /\ UNCHANGED <<CONFIG, call, template_name, address, html_text, plain_text,
                   subject, body_html, body_text, address_split, idna_input,
                   to_address, assembled, email, sent, result>>

\* A plausible slip: a failed send is tried once more with a new transport.
SendRetrying ==
    /\ pc = "send"
    /\ \E send_ok \in BOOLEAN :
          /\ sent' = Append(sent, [email |-> email[1], transport |-> transport[1],
                                   ok |-> send_ok])
          /\ IF send_ok THEN Returns(Ok("()"))
             ELSE IF Len(sent) = 0 THEN pc' = "mailer" /\ UNCHANGED result
             ELSE Returns(Err("smtp::Error"))
    /\ UNCHANGED <<CONFIG, call, template_name, address, html_text, plain_text,
                   subject, body_html, body_text, address_split, idna_input,
                   to_address, assembled, email, transport, warnings, mailers>>

\* send_email, lines 345-346: let _ = mailer().send(&email)?; Ok(())
Send ==
    /\ pc = "send"
    /\ \E send_ok \in BOOLEAN :
          /\ sent' = Append(sent, [email |-> email[1], transport |-> transport[1],
                                   ok |-> send_ok])
          /\ IF send_ok THEN Returns(Ok("()")) ELSE Returns(Err("smtp::Error"))
    /\ UNCHANGED <<CONFIG, call, template_name, address, html_text, plain_text,
                   subject, body_html, body_text, address_split, idna_input,
                   to_address, assembled, email, transport, warnings, mailers>>

(***************************************************************************)
(* The specifications.  Spec is a whole dispatch call on sample inputs.    *)
(* The other three start where one function is called and run it on every  *)
(* input up to the bounds.                                                 *)
(***************************************************************************)
Init ==
    /\ CONFIG \in SampleConfigs
    /\ pc = "idle"
    /\ call = "" /\ template_name = "" /\ address = << >>
    /\ html_text = None /\ plain_text = None
    /\ subject = << >> /\ body_html = << >> /\ body_text = << >>
    /\ address_split = << >> /\ idna_input = None /\ to_address = None
    /\ assembled = None /\ email = None /\ transport = None
    /\ warnings = 0 /\ mailers = 0 /\ sent = << >> /\ result = None

Next ==
    \/ Dispatch(SampleAddresses)
    \/ GetTemplateHtml(SampleRenders)
    \/ GetTemplateText(SampleRenders)
    \/ SendEmailAddress
    \/ SendEmailMessage
    \/ Mailer
    \/ Send

Spec == Init /\ [][Next]_vars

\* send_test has been called: get_text on every rendered text
InitTemplate ==
    /\ CONFIG = PlainConfig
    /\ pc = "get_template_html"
    /\ call = "send_test" /\ template_name = "email/smtp_test"
    /\ address = <<"a", "@", "a">>
    /\ html_text = None /\ plain_text = None
    /\ subject = << >> /\ body_html = << >> /\ body_text = << >>
    /\ address_split = << >> /\ idna_input = None /\ to_address = None
    /\ assembled = None /\ email = None /\ transport = None
    /\ warnings = 0 /\ mailers = 0 /\ sent = << >> /\ result = None

NextTemplate ==
    \/ GetTemplateHtml(AllRenders)
    \/ GetTemplateText(AllRenders)

SpecTemplate == InitTemplate /\ [][NextTemplate]_vars

\* get_text has returned: send_email on every address
InitAddress ==
    /\ CONFIG = PlainConfig
    /\ pc = "send_email"
    /\ call = "send_test" /\ template_name = "email/smtp_test"
    /\ address \in AllAddresses
    /\ html_text = Some(Ok(<<"x", DELIMITER, "x">>))
    /\ plain_text = Some(Ok(<<"x", DELIMITER, "x">>))
    /\ subject = <<"x">> /\ body_html = <<"x">> /\ body_text = <<"x">>
    /\ address_split = << >> /\ idna_input = None /\ to_address = None
    /\ assembled = None /\ email = None /\ transport = None
    /\ warnings = 0 /\ mailers = 0 /\ sent = << >> /\ result = None

NextAddress ==
    \/ SendEmailAddress
    \/ SendEmailMessage

SpecAddress == InitAddress /\ [][NextAddress]_vars

\* The message has been built: mailer() under every configuration
InitMailer ==
    /\ CONFIG \in MailerConfigs
    /\ pc = "mailer"
    /\ call = "send_test" /\ template_name = "email/smtp_test"
    /\ address = <<"a", "@", "a">>
    /\ html_text = Some(Ok(<<"x", DELIMITER, "x">>))
    /\ plain_text = Some(Ok(<<"x", DELIMITER, "x">>))
    /\ subject = <<"x">> /\ body_html = <<"x">> /\ body_text = <<"x">>
    /\ address_split = <<<<"a">>, <<"a">>>>
    /\ idna_input = Some(<<"a">>)
    /\ to_address = Some(<<"a", "@", "a">>)
    /\ assembled = Some(TRUE)
    /\ email = Some(message(CONFIG, <<"a", "@", "a">>, <<"x">>, <<"x">>, <<"x">>, TRUE).v)
    /\ transport = None
    /\ warnings = 0 /\ mailers = 0 /\ sent = << >> /\ result = None

NextMailer ==
    \/ Mailer
    \/ Send

SpecMailer == InitMailer /\ [][NextMailer]_vars

(***************************************************************************)
(* What the claims speak of.                                               *)
(***************************************************************************)
HasAt(a) == \E i \in 1..Len(a) : a[i] = "@"
LastAt(a) == CHOOSE i \in 1..Len(a) : a[i] = "@" /\ \A j \in (i + 1)..Len(a) : a[j] # "@"
LocalPart(a) == SubSeq(a, 1, LastAt(a) - 1)
DomainPart(a) == SubSeq(a, LastAt(a) + 1, Len(a))

HasDelimiter(t) == \E i \in 1..Len(t) : t[i] = DELIMITER
FirstDelimiter(t) ==
    CHOOSE i \in 1..Len(t) : t[i] = DELIMITER /\ \A j \in 1..(i - 1) : t[j] # DELIMITER

Returned == pc = "done" /\ result # None
ReturnedFailure == Returned /\ ~ result[1].ok
ReturnedSuccess == Returned /\ result[1].ok
CallOver == pc \in {"done", "panicked"}

\* The steps before the send that fail, told from the inputs of the call
RenderingFails ==
    \/ html_text # None /\ ~ html_text[1].ok
    \/ plain_text # None /\ ~ plain_text[1].ok
SplittingFails ==
    \/ html_text # None /\ html_text[1].ok /\ ~ HasDelimiter(html_text[1].v)
    \/ plain_text # None /\ plain_text[1].ok /\ ~ HasDelimiter(plain_text[1].v)
AtSplitFails == pc # "idle" /\ ~ HasAt(address)
IdnaFails ==
    pc # "idle" /\ HasAt(address) /\ ~ domain_to_ascii_strict(DomainPart(address)).ok
RecipientParseFails ==
    /\ pc # "idle" /\ HasAt(address)
    /\ domain_to_ascii_strict(DomainPart(address)).ok
    /\ ~ Address_from_str(LocalPart(address) \o <<"@">>
                          \o domain_to_ascii_strict(DomainPart(address)).v).ok
FromParseFails == pc # "idle" /\ ~ Address_from_str(CONFIG.smtp_from).ok
AssemblyFails == assembled = Some(FALSE)

\* C1: in every dispatcher, when template rendering, the delimiter split,
\* the '@' split, the IDNA conversion, the parsing of the recipient or of the
\* from-address, or the assembly of the message fails, no send is invoked
\* (and no transport built) in that call and the call returns a failure; a
\* failure of rendering, splitting or assembly returns at once; a send is
\* invoked only with the complete message, built from the rendered subject
\* and bodies, the normalized recipient and the configured sender.
C1_FailureBeforeSendNeverSends ==
    /\ (RenderingFails \/ SplittingFails \/ AtSplitFails \/ IdnaFails
           \/ RecipientParseFails \/ FromParseFails \/ AssemblyFails)
       => /\ sent = << >>
          /\ transport = None
          /\ pc # "panicked"
          /\ pc = "done" => ReturnedFailure
    /\ (RenderingFails \/ SplittingFails \/ AssemblyFails) => ReturnedFailure
    /\ sent # << >>
       => /\ email # None
          /\ sent[1].email = email[1]
          /\ email[1].to.email = to_address[1]
          /\ email[1].from.email = CONFIG.smtp_from
          /\ email[1].subject = subject
          /\ email[1].body = mime_tree(body_html, body_text)
          /\ call \in Dispatchers

\* C1's case: everything up to the recipient is fine, the from-address does
\* not parse, and the call has returned a failure without a send.
C1_Witness ==
    /\ ReturnedFailure
    /\ to_address # None
    /\ Address_from_str(to_address[1]).ok
    /\ FromParseFails
    /\ sent = << >>

\* C2: a dispatch call invokes the transport's send at most once and builds
\* at most one transport; the call returns right after its send: a failure
\* when the send failed, success when it succeeded.
C2_AtMostOneSend ==
    /\ Len(sent) <= 1
    /\ mailers <= 1
    /\ sent # << >>
       => /\ Returned
          /\ sent[1].ok => result[1] = Ok("()")
          /\ ~ sent[1].ok => result[1] = Err("smtp::Error")
    /\ ReturnedSuccess => Len(sent) = 1 /\ sent[1].ok

\* C2's case: the one send failed and the call returned the failure.
C2_Witness ==
    /\ Len(sent) = 1
    /\ ~ sent[1].ok
    /\ ReturnedFailure
    /\ mailers = 1

\* C3: once send_email has normalized an address with an '@', the IDNA
\* transform received the segment after the right-most '@', normalization
\* succeeded exactly when that segment passes the strict transform, and the
\* result is the text before the right-most '@', an '@', and the encoded
\* domain; an address with no '@' fails with the invalid-address error and
\* the IDNA transform is not reached.
C3_SplitsAtRightMostAt ==
    (pc # "send_email")
    => IF HasAt(address)
       THEN /\ idna_input = Some(DomainPart(address))
            /\ to_address # None <=> domain_to_ascii_strict(DomainPart(address)).ok
            /\ to_address # None
               => to_address[1] = LocalPart(address) \o <<"@">>
                                  \o domain_to_ascii_strict(DomainPart(address)).v
            /\ to_address = None
               => /\ Returned
                  /\ result[1] = Err("Can't convert email domain to ASCII representation")
       ELSE /\ idna_input = None
            /\ to_address = None
            /\ Returned
            /\ result[1] = Err("Invalid email address (no @)")

\* C3's case: an address with two '@' and a non-ASCII domain was normalized.
C3_Witness ==
    /\ pc # "send_email"
    /\ Cardinality({i \in 1..Len(address) : address[i] = "@"}) = 2
    /\ to_address = Some(<<"@", "@", "x", "n", "-", "-", "9", "c", "a">>)

\* C4 (as claimed): get_template splits at the first marker: the subject is
\* the trimmed text before it and the body the trimmed whole of the text
\* after it, also when the marker occurs again; without a marker it fails.
C4_BodyIsAllAfterFirstMarker ==
    (html_text # None /\ html_text[1].ok)
    => IF HasDelimiter(html_text[1].v)
       THEN /\ pc # "done" \/ plain_text # None
            /\ subject = trim(SubSeq(html_text[1].v, 1, FirstDelimiter(html_text[1].v) - 1))
            /\ body_html = trim(SubSeq(html_text[1].v, FirstDelimiter(html_text[1].v) + 1,
                                       Len(html_text[1].v)))
       ELSE ReturnedFailure

\* C5 (as claimed): the selected mechanisms are the subsequence of
\* (Plain, Login, XOAuth2) matched by at least one token, each once,
\* whatever the order of the tokens.
SelectedMechanisms ==
    IF transport[1].authentication = None THEN << >>
    ELSE transport[1].authentication[1]
WantedTokens == split(CONFIG.smtp_auth_mechanism[1], ",")

C5_AllowedSetOrder ==
    (transport # None /\ CONFIG.smtp_auth_mechanism # None)
    => SelectedMechanisms =
          SelectSeq(allowed_mechanisms,
                    LAMBDA m : \E i \in 1..Len(WantedTokens) :
                                  mechanism_matches(m, WantedTokens[i]))

\* C5 (amended): the selected mechanisms follow the order of the tokens of
\* the configured string: one entry for each token that names a mechanism,
\* in the order of those tokens, a mechanism named twice appearing twice.
C5_ConfiguredOrder ==
    (transport # None /\ CONFIG.smtp_auth_mechanism # None)
    => LET naming == SelectSeq(WantedTokens,
                               LAMBDA w : \E k \in 1..Len(allowed_mechanisms) :
                                             mechanism_matches(allowed_mechanisms[k], w))
       IN  /\ Len(SelectedMechanisms) = Len(naming)
           /\ \A i \in 1..Len(naming) :
                 mechanism_matches(SelectedMechanisms[i], naming[i])

\* C5's case: "login,PLAIN" selected Login before Plain.
C5_Witness ==
    /\ transport # None
    /\ CONFIG.smtp_auth_mechanism = Some(<<"login", ",", "PLAIN">>)
    /\ transport[1].authentication = Some(<<"Login", "Plain">>)

\* Whether a token names mechanism m once `trimmed` is removed from its ends
Names(token, m, trimmed) ==
    to_lowercase(trim_matches(token, trimmed)) = to_lowercase(to_string(m))
MechanismsNamed(trimmed) ==
    {m \in Range(allowed_mechanisms) :
        \E i \in 1..Len(WantedTokens) : Names(WantedTokens[i], m, trimmed)}

SelectionFollows(trimmed) ==
    (transport # None /\ CONFIG.smtp_auth_mechanism # None)
    => /\ Range(SelectedMechanisms) = MechanismsNamed(trimmed)
       /\ MechanismsNamed(trimmed) # {}
          => /\ transport[1].authentication # None
             /\ Range(transport[1].authentication[1]) = MechanismsNamed(trimmed)
             /\ warnings = 0
       /\ MechanismsNamed(trimmed) = {}
          => transport[1].authentication = None /\ warnings = 1

\* C6 (as claimed): a mechanism is selected exactly when some token, after
\* trimming surrounding quote characters and white space, equals its name
\* case-insensitively; the transport is restricted to exactly the selected
\* mechanisms, or, when there is none, a warning is logged and the
\* mechanisms stay at the default.
C6_TrimsQuotesAndWhiteSpace == SelectionFollows({"\"", "'", " ", "\t", "\n"})

\* C6 (amended): as claimed, with the trimming that of the double quote, the
\* single quote and the space alone (a tab beside a name keeps the token
\* from matching); the transport is built whenever the host is set and the
\* TLS connector builds.
C6_TrimsQuotesAndSpaces ==
    /\ SelectionFollows({"\"", "'", " "})
    /\ (mailers = 1 /\ ~ CONFIG.smtp_ssl) => transport # None

\* C6's case: "PLAIN,bogus" restricted the transport to Plain.
C6_Witness ==
    /\ transport # None
    /\ CONFIG.smtp_auth_mechanism = Some(<<"PLAIN", ",", "bogus">>)
    /\ transport[1].authentication = Some(<<"Plain">>)
    /\ warnings = 0

\* C7 (as claimed): when get_text returns successfully, the subject, the
\* HTML body and the text body are all non-empty.
C7_RenderedContentNonEmpty ==
    (pc = "send_email") => subject # << >> /\ body_html # << >> /\ body_text # << >>

\* C8 (as claimed): an address that normalization accepts was split into
\* two non-empty parts.
C8_TwoNonEmptyParts ==
    (to_address # None)
    => Len(address_split) = 2 /\ address_split[1] # << >> /\ address_split[2] # << >>

\* C8 (amended): an address that normalization accepts was split into
\* exactly two parts, of which the domain segment is non-empty; an address
\* whose right-most '@' is its last character is not accepted; one whose
\* right-most '@' is its first character is accepted when its domain passes
\* the IDNA conversion, with an empty local part, and is refused only when
\* the recipient mailbox is parsed.
C8_DomainNonEmpty ==
    /\ (to_address # None) => Len(address_split) = 2 /\ address_split[1] # << >>
    /\ (pc # "send_email" /\ address # << >> /\ address[Len(address)] = "@")
       => to_address = None /\ ReturnedFailure
    /\ (pc # "send_email" /\ HasAt(address) /\ LastAt(address) = 1)
       => /\ to_address # None <=> domain_to_ascii_strict(DomainPart(address)).ok
          /\ email = None
          /\ pc \in {"message", "done"}

\* C8's case: an address with an empty local part passed normalization.
C8_Witness ==
    /\ to_address # None
    /\ address_split[2] = << >>
    /\ address_split[1] # << >>

\* C9 (as claimed, for any typed failure): with the SMTP host unset, a
\* dispatch call that is over has returned a failure to its caller and has
\* invoked no send.
C9_HostUnsetReturnsFailure ==
    (CONFIG.smtp_host = None /\ CallOver) => ReturnedFailure /\ sent = << >>

\* C10: the transport mailer() returns has TLS mode Wrapper when TLS is
\* enabled and explicit, Required when enabled and not explicit, None when
\* disabled; TLS parameters are built exactly when TLS is enabled, with
\* minimum protocol version TLS 1.1.
C10_TlsMode ==
    (transport # None)
    => /\ (CONFIG.smtp_ssl /\ CONFIG.smtp_explicit_tls)
          => transport[1].tls.mode = "Wrapper"
       /\ (CONFIG.smtp_ssl /\ ~ CONFIG.smtp_explicit_tls)
          => transport[1].tls.mode = "Required"
       /\ ~ CONFIG.smtp_ssl => transport[1].tls.mode = "None"
       /\ transport[1].tls.params # None <=> CONFIG.smtp_ssl
       /\ transport[1].tls.params # None
          => transport[1].tls.params[1].connector.min_protocol_version = "Tlsv11"

\* C10's case: TLS enabled and explicit gave Wrapper.
C10_Witness ==
    /\ transport # None
    /\ CONFIG.smtp_ssl /\ CONFIG.smtp_explicit_tls
    /\ transport[1].tls.mode = "Wrapper"
    /\ transport[1].tls.params # None

====
